---- MODULE Spec2Model ----
(***************************************************************************)
(* Model of the Elrond hardware-wallet adapter (src/src/Elrond.ts, with    *)
(* the two older snapshots src/src/Elrond.js and src/unnamed/part_000).    *)
(*                                                                         *)
(* A Buffer is a sequence of bytes 0..255 (position i of the Buffer is     *)
(* element i+1 of the sequence).  A JavaScript string is a sequence of     *)
(* character codes.  Each caller invokes one operation of one adapter      *)
(* instance; the only suspension point of an operation is the await of     *)
(* transport.send, so an action runs the code from one await to the next.  *)
(***************************************************************************)
EXTENDS Integers, Sequences, FiniteSets, TLC

VARIABLES
    pc,         \* caller -> "idle" | "awaiting" | "done" | "failed"
    op,         \* caller -> the invoked method and its arguments
    apdus,      \* caller -> the apdus array built by sign
    sentCount,  \* caller -> number of transport.send calls made so far
    response,   \* caller -> the `response` local of the running method
    outcome,    \* caller -> the settled promise: value or error
    wire,       \* Transport: every send call so far, in call order, each
                \* "pending", "replied" (with the reply) or "failed"
    appAPIlock  \* Transport: the caller whose decorated method runs, or 0

vars == <<pc, op, apdus, sentCount, response, outcome, wire, appAPIlock>>

----------------------------------------------------------------------------
(* Bounds of the model. *)

\* Signing payloads span up to MaxFrames full frames (plus one byte).
MaxFrames == 2

----------------------------------------------------------------------------
(* Program constants. *)

CLA == 237                          \* 0xed
GET_APP_CONFIGURATION_INS == 2      \* 0x02
GET_ADDRESS_INS == 3                \* 0x03
SIGN_RAW_TX_INS == 4                \* 0x04
SET_ADDRESS_INS == 5                \* 0x05
SIGN_MESSAGE_INS == 6               \* 0x06
SIGN_HASH_TX_INS == 7               \* 0x07
PROVIDE_ESDT_INFO_INS == 8          \* 0x08
GET_ADDRESS_AUTH_TOKEN_INS == 9     \* 0x09

ACTIVE_SIGNERS ==
    {SIGN_RAW_TX_INS, SIGN_HASH_TX_INS, SIGN_MESSAGE_INS, GET_ADDRESS_AUTH_TOKEN_INS}

maxChunkSize == 150

\* The shorter list of Elrond.js, as if the newer methods were not added.
decoratedMethods_js ==
    {"getAddress", "setAddress", "signTransaction", "signMessage",
     "getAppConfiguration"}

\* The method names the constructor hands to transport.decorateAppAPIMethods.
decoratedMethods ==
    {"getAddress", "setAddress", "signTransaction", "signMessage",
     "getAppConfiguration", "getAddressAndSignAuthToken", "provideESDTInfo"}

----------------------------------------------------------------------------
(* Buffers and strings. *)

Min(a, b) == IF a < b THEN a ELSE b
Max(a, b) == IF a < b THEN b ELSE a

\* The value JavaScript gives for an index outside the Buffer.
Undefined == 0 - 1

\* buf[i]
At(buf, i) == IF i >= 0 /\ i < Len(buf) THEN buf[i + 1] ELSE Undefined

\* An index argument of Buffer.slice: negative counts from the end, and the
\* result is clamped to 0..length.
SliceIndex(i, len) == IF i < 0 THEN Max(len + i, 0) ELSE Min(i, len)

\* buf.slice(start, end)
Slice(buf, start, end) ==
    LET a == SliceIndex(start, Len(buf))
        b == SliceIndex(end, Len(buf))
    IN  IF b <= a THEN <<>> ELSE SubSeq(buf, a + 1, b)

\* Character codes of "0123456789abcdef".
HexDigit(n) == IF n < 10 THEN 48 + n ELSE 87 + n

\* buf.toString("hex"): two lower-case hex digits per byte.
ToHex(buf) ==
    [i \in 1..(2 * Len(buf)) |->
        IF i % 2 = 1 THEN HexDigit(buf[(i + 1) \div 2] \div 16)
                     ELSE HexDigit(buf[i \div 2] % 16)]

\* buf.toString("ascii"): one character per byte, the high bit dropped.
ToAscii(buf) == [i \in 1..Len(buf) |-> buf[i] % 128]

\* Character code of the "|" delimiter.
PIPE == 124

\* str.indexOf(sep) as a 1-based position, 0 when sep does not occur.
IndexOf(str, sep) ==
    LET hits == {i \in 1..Len(str) : str[i] = sep}
    IN  IF hits = {} THEN 0 ELSE CHOOSE i \in hits : \A j \in hits : i <= j

\* str.split(sep) for a one-character separator.
RECURSIVE Split(_, _)
Split(str, sep) ==
    LET k == IndexOf(str, sep)
    IN  IF k = 0 THEN <<str>>
        ELSE <<SubSeq(str, 1, k - 1)>> \o Split(SubSeq(str, k + 1, Len(str)), sep)

\* Element i (0-based) of a JavaScript array, undefined outside it.
ArrayAt(arr, i) == IF i < Len(arr) THEN arr[i + 1] ELSE <<Undefined>>

\* Byte k (0 = most significant) of the 32-bit big-endian form of v, as
\* writeInt32BE and writeUInt32BE store it (two's complement for v < 0).
Byte32(v, k) ==
    CASE k = 0 -> (v \div 16777216) % 256
      [] k = 1 -> (v \div 65536) % 256
      [] k = 2 -> (v \div 256) % 256
      [] OTHER -> v % 256

\* The four bytes written by writeInt32BE / writeUInt32BE.
WriteInt32BE(v) == <<Byte32(v, 0), Byte32(v, 1), Byte32(v, 2), Byte32(v, 3)>>

----------------------------------------------------------------------------
(* Settled promises. *)

Value(v) == [kind |-> "value", value |-> v]
Failure(e) == [kind |-> "error", error |-> e]
Pending == [kind |-> "none"]

\* An APDU handed to transport.send.
Apdu(cla, ins, p1, p2, data) ==
    [cla |-> cla, ins |-> ins, p1 |-> p1, p2 |-> p2, data |-> data]

----------------------------------------------------------------------------
(* sign: the guard, the chunking loop and the decoding of the last reply. *)

\* `!ACTIVE_SIGNERS.includes(type)`
invalidSignInstruction_tokenInfoListed(type) ==
    type \notin (ACTIVE_SIGNERS \cup {PROVIDE_ESDT_INFO_INS})
invalidSignInstruction(type) == type \notin ACTIVE_SIGNERS

\* `isFirst ? 0x00 : 0x80` with isFirst = (offset === 0)
firstFrameMarker_swapped(offset) == IF offset = 0 THEN 128 ELSE 0
firstFrameMarker(offset) == IF offset = 0 THEN 0 ELSE 128

\* `hasMore ? maxChunkSize : message.length - offset`
chunkSizeAt_evenSplit(offset, length) ==
    LET hasMore == offset + maxChunkSize < length
    IN  IF hasMore THEN (length - offset + 1) \div 2 ELSE length - offset
chunkSizeAt(offset, length) ==
    LET hasMore == offset + maxChunkSize < length
    IN  IF hasMore THEN maxChunkSize ELSE length - offset

\* `Buffer.alloc(chunkSize)` then `message.copy(apdu.data, 0, offset, offset + chunkSize)`:
\* a zero-filled buffer that receives the bytes the message has in that range.
chunkData(message, offset, chunkSize) ==
    LET copied == SubSeq(message, offset + 1, Min(offset + chunkSize, Len(message)))
    IN  copied \o [i \in 1..(chunkSize - Len(copied)) |-> 0]

\* The while loop of sign, from `offset` on, appending to `acc`; p2 is 0x00
\* in Elrond.ts and the curve mask 0x80 in the older snapshots.
RECURSIVE chunkLoop(_, _, _, _, _)
chunkLoop(message, type, p2, offset, acc) ==
    IF offset = Len(message) THEN acc
    ELSE LET chunkSize == chunkSizeAt(offset, Len(message))
             apdu == Apdu(CLA, type, firstFrameMarker(offset), p2,
                          chunkData(message, offset, chunkSize))
         IN  chunkLoop(message, type, p2, offset + chunkSize, Append(acc, apdu))

\* `response.length !== 67 || response[0] !== 64`
invalidSignature_conjunctive(resp) == Len(resp) # 67 /\ At(resp, 0) # 64
invalidSignature_nonEmptyOnly(resp) ==
    Len(resp) # 0 /\ (Len(resp) # 67 \/ At(resp, 0) # 64)
invalidSignature(resp) == Len(resp) # 67 \/ At(resp, 0) # 64

\* `response.length !== 129 && response[0] !== 126`
invalidAuthTokenResponse(resp) == Len(resp) # 129 /\ At(resp, 0) # 126

\* handleAuthTokenResponse
handleAuthTokenResponse(resp) ==
    IF invalidAuthTokenResponse(resp)
    THEN Failure("invalid address and token signature received from ledger device")
    ELSE LET address == ToAscii(Slice(resp, 1, 63))
             signature == ToHex(Slice(resp, 63, Len(resp) - 2))
         IN  Value(address \o <<PIPE>> \o signature)

\* The part of sign after the send loop.
signDecode(type, resp) ==
    IF type = GET_ADDRESS_AUTH_TOKEN_INS THEN handleAuthTokenResponse(resp)
    ELSE IF invalidSignature(resp)
    THEN Failure("invalid signature received from ledger device")
    ELSE Value(ToHex(Slice(resp, 1, Len(resp) - 2)))

\* The part of getAddressAndSignAuthToken after `await this.sign(...)`.
authTokenResult(signed) ==
    IF signed.kind # "value" THEN signed
    ELSE LET splitRes == Split(signed.value, PIPE)
         IN  Value([address |-> ArrayAt(splitRes, 0),
                    signature |-> ArrayAt(splitRes, 1)])

\* The 12-byte header and the token, concatenated.
authTokenPayload_headerless(account, index, token) ==
    IF token = <<>> THEN <<>>
    ELSE WriteInt32BE(account) \o WriteInt32BE(index) \o WriteInt32BE(Len(token)) \o token
authTokenPayload(account, index, token) ==
    WriteInt32BE(account) \o WriteInt32BE(index) \o WriteInt32BE(Len(token)) \o token

----------------------------------------------------------------------------
(* getAddress, setAddress, getAppConfiguration, provideESDTInfo. *)

\* The 8-byte derivation payload of getAddress and setAddress.
derivationData(account, index) == WriteInt32BE(account) \o WriteInt32BE(index)

\* `display ? 0x01 : 0x00`
displayFlag_always(display) == 1
displayFlag(display) == IF display THEN 1 ELSE 0

\* The decoding of getAddress: `response.slice(1, 1 + addressLength)`, where
\* 1 + undefined is NaN, which slice takes as 0.
getAddressDecode(resp) ==
    LET addressLength == At(resp, 0)
        end == IF addressLength = Undefined THEN 0 ELSE 1 + addressLength
    IN  Value([address |-> ToAscii(Slice(resp, 1, end))])

\* A byte operand of `|` and `<<`: undefined counts as 0.
IntOperand(x) == IF x = Undefined THEN 0 ELSE x

\* `x << 24` on a byte: the result is a signed 32-bit integer.
ShiftLeft24(x) == IF x >= 128 THEN (x - 256) * 16777216 ELSE x * 16777216

\* getIntValueFromBytes: the bytes do not overlap, so `|` adds them.
getIntValueFromBytes(buffer) ==
    LET n == Len(buffer)
    IN  IntOperand(At(buffer, n - 1))
        + IntOperand(At(buffer, n - 2)) * 256
        + IntOperand(At(buffer, n - 3)) * 65536
        + ShiftLeft24(IntOperand(At(buffer, n - 4)))

\* Decimal digits of n >= 0, as character codes.
RECURSIVE Decimal(_)
Decimal(n) == IF n < 10 THEN <<48 + n>> ELSE Decimal(n \div 10) \o <<48 + (n % 10)>>

\* `${x}` for a byte or undefined.
Template(x) ==
    IF x = Undefined THEN <<117, 110, 100, 101, 102, 105, 110, 101, 100>>
    ELSE Decimal(x)

\* `${response[3]}.${response[4]}.${response[5]}`
versionString(resp) ==
    Template(At(resp, 3)) \o <<46>> \o Template(At(resp, 4)) \o <<46>>
        \o Template(At(resp, 5))

\* `response.length === 14`
hasExtendedIndices_orLonger(resp) == Len(resp) >= 14
hasExtendedIndices(resp) == Len(resp) = 14

\* A variant that still reads the one-byte indices of a legacy reply.
getAppConfigurationDecode_keepLegacy(resp) ==
    LET extended == hasExtendedIndices(resp)
    IN  Value([contractData |-> At(resp, 0),
               accountIndex |-> IF extended
                                THEN getIntValueFromBytes(Slice(resp, 6, 10))
                                ELSE At(resp, 1),
               addressIndex |-> IF extended
                                THEN getIntValueFromBytes(Slice(resp, 10, 14))
                                ELSE At(resp, 2),
               version |-> versionString(resp)])

\* The decoding of getAppConfiguration in Elrond.ts.
getAppConfigurationDecode(resp) ==
    LET extended == hasExtendedIndices(resp)
    IN  Value([contractData |-> At(resp, 0),
               accountIndex |-> IF extended
                                THEN getIntValueFromBytes(Slice(resp, 6, 10)) ELSE 0,
               addressIndex |-> IF extended
                                THEN getIntValueFromBytes(Slice(resp, 10, 14)) ELSE 0,
               version |-> versionString(resp)])

\* The decoding of getAppConfiguration in Elrond.js and in the oldest snapshot.
getAppConfigurationDecode_js(resp) ==
    Value([contractData |-> At(resp, 0),
           accountIndex |-> At(resp, 1),
           addressIndex |-> At(resp, 2),
           version |-> versionString(resp)])

\* Buffer.from([n]): one byte, n taken modulo 256.
ByteOf(n) == <<n % 256>>

\* Value of a hex digit character, Undefined for any other character.
HexValue(ch) ==
    IF ch >= 48 /\ ch <= 57 THEN ch - 48
    ELSE IF ch >= 97 /\ ch <= 102 THEN ch - 87
    ELSE IF ch >= 65 /\ ch <= 70 THEN ch - 55
    ELSE Undefined

\* Buffer.from(str, "hex"): one byte per pair of hex digits, stopping at the
\* first pair that is not hex; an odd last character is dropped.
FromHex(str) ==
    LET pairs == Len(str) \div 2
        bad == {k \in 1..pairs : HexValue(str[2 * k - 1]) = Undefined
                                    \/ HexValue(str[2 * k]) = Undefined}
        n == IF bad = {} THEN pairs
             ELSE (CHOOSE k \in bad : \A j \in bad : k <= j) - 1
    IN  [k \in 1..n |-> HexValue(str[2 * k - 1]) * 16 + HexValue(str[2 * k])]

\* serializeESDTInfo, for ASCII strings (one byte per character).
serializeESDTInfo(ticker, id, decimals, chainId, signature) ==
    ByteOf(Len(ticker)) \o ticker \o ByteOf(Len(id)) \o id \o ByteOf(decimals)
        \o ByteOf(Len(chainId)) \o chainId \o FromHex(signature)

\* What a method returns once the reply to its last send is `resp`.
Finish(o, resp) ==
    CASE o.name \in {"sign", "signTransaction", "signMessage"} ->
            signDecode(o.type, resp)
      [] o.name = "getAddressAndSignAuthToken" ->
            authTokenResult(signDecode(GET_ADDRESS_AUTH_TOKEN_INS, resp))
      [] o.name = "getAddress" -> getAddressDecode(resp)
      [] o.name = "getAppConfiguration" ->
            IF o.snapshot = "ts" THEN getAppConfigurationDecode(resp)
            ELSE getAppConfigurationDecode_js(resp)
      [] OTHER -> Value(resp)     \* setAddress, provideESDTInfo: the reply itself

----------------------------------------------------------------------------
(* The inputs the callers and the device draw from.  `wide` selects the    *)
(* full input sets (one caller) or a reduced one (two concurrent callers). *)

\* A payload of `len` bytes whose bytes differ from their neighbours.
Message(len) == [i \in 1..len |-> (5 * i + 3) % 256]

\* Payload lengths around every frame boundary, up to MaxFrames full frames.
PayloadLengths(wide) ==
    IF wide
    THEN {n \in 0..(MaxFrames * maxChunkSize + 1) : n % maxChunkSize \in {0, 1, 77, 149}}
    ELSE {1, maxChunkSize + 1}

\* Token lengths: with the 12-byte header, one frame, exactly one full frame,
\* one byte more, and several frames.
TokenLengths(wide) ==
    IF wide
    THEN {0, 1, maxChunkSize - 12, maxChunkSize - 11, (MaxFrames - 1) * maxChunkSize}
    ELSE {0, maxChunkSize}

\* Instruction codes handed to sign directly.
SignTypes(wide) ==
    IF wide
    THEN {0, GET_APP_CONFIGURATION_INS, GET_ADDRESS_INS, SET_ADDRESS_INS,
          PROVIDE_ESDT_INFO_INS, GET_ADDRESS_AUTH_TOKEN_INS, 255}
    ELSE {PROVIDE_ESDT_INFO_INS, SIGN_MESSAGE_INS}

\* Derivation indices <<account, index>>: account is written as a signed and
\* index as an unsigned 32-bit integer.
Derivations(wide) ==
    IF wide THEN {<<0, 0>>, <<1, 65794>>, <<0 - 1, 1>>, <<2147483647, 2147483647>>}
    ELSE {<<0, 1>>}

\* A reply of `len` bytes starting with `marker`.  With fill 0 none of the
\* bytes at positions 1..62 reads as "|"; with fill 1 position 40 does.
Reply(len, marker, fill) ==
    [i \in 1..len |-> IF i = 1 THEN marker ELSE (fill + 3 * i) % 256]

SignatureReplies(wide) ==
    IF wide
    THEN {Reply(l, m, 0) : l \in {0, 66, 67, 68}, m \in {64, 63}}
    ELSE {Reply(67, 64, 0), Reply(66, 64, 0)}

AuthTokenReplies(wide) ==
    IF wide
    THEN {Reply(l, m, 0) : l \in {0, 1, 128, 129, 130}, m \in {126, 125}}
            \cup {Reply(129, 126, 1), Reply(129, 125, 1)}
    ELSE {Reply(129, 126, 0), Reply(128, 125, 0)}

\* A getAppConfiguration reply cut to `len` bytes: contract data flag, the
\* two legacy index bytes, the version, then the two 4-byte indices whose
\* most significant bytes are hiA and hiB.
ConfigReply(len, hiA, hiB) ==
    SubSeq(<<1, 5, 9, 1, 0, 16, hiA, 1, 2, 3, hiB, 4, 5, 6, 7>>, 1, len)

ConfigReplies(wide) ==
    IF wide
    THEN {ConfigReply(l, a, b) : l \in {0, 4, 5, 6, 7, 13, 14, 15},
                                 a \in {0, 127, 128, 255}, b \in {0, 127, 128, 255}}
    ELSE {ConfigReply(6, 0, 0), ConfigReply(14, 0, 128)}

\* A getAddress reply: the length byte n, then `have` address bytes and the
\* two status bytes.
AddressReply(n, have) == <<n>> \o [i \in 1..have |-> 96 + i] \o <<144, 0>>

AddressReplies(wide) ==
    IF wide
    THEN {<<>>} \cup {AddressReply(n, h) : n \in {0, 5, 62}, h \in {0, 3, 5, 62}}
    ELSE {AddressReply(5, 5)}

AckReplies == {<<>>, <<144, 0>>}

\* What the device may answer to a command with instruction `ins`.
Replies(ins, wide) ==
    CASE ins \in {SIGN_RAW_TX_INS, SIGN_HASH_TX_INS, SIGN_MESSAGE_INS} -> SignatureReplies(wide)
      [] ins = GET_ADDRESS_AUTH_TOKEN_INS -> AuthTokenReplies(wide)
      [] ins = GET_APP_CONFIGURATION_INS -> ConfigReplies(wide)
      [] ins = GET_ADDRESS_INS -> AddressReplies(wide)
      [] OTHER -> AckReplies

\* ASCII strings and token records for provideESDTInfo.
Text(len) == [i \in 1..len |-> 65 + (i % 26)]
HexText(len) == [i \in 1..len |-> HexDigit(i % 16)]

TokenInfos(wide) ==
    IF wide
    THEN {[ticker |-> Text(t), id |-> Text(2 * t), decimals |-> d, chainId |-> Text(1),
           signature |-> HexText(s)] :
              t \in {0, 4, 30}, d \in {0, 18, 255}, s \in {0, 127, 128}}
    ELSE {[ticker |-> Text(4), id |-> Text(8), decimals |-> 18, chainId |-> Text(1),
           signature |-> HexText(128)]}

----------------------------------------------------------------------------
(* The state machine. *)

Init ==
    /\ pc = [c \in {1} |-> "idle"]
    /\ op = [c \in {1} |-> [name |-> "none"]]
    /\ apdus = [c \in {1} |-> <<>>]
    /\ sentCount = [c \in {1} |-> 0]
    /\ response = [c \in {1} |-> <<>>]
    /\ outcome = [c \in {1} |-> Pending]
    /\ wire = <<>>
    /\ appAPIlock = 0

\* Two callers share the adapter instance.
InitConc ==
    /\ pc = [c \in {1, 2} |-> "idle"]
    /\ op = [c \in {1, 2} |-> [name |-> "none"]]
    /\ apdus = [c \in {1, 2} |-> <<>>]
    /\ sentCount = [c \in {1, 2} |-> 0]
    /\ response = [c \in {1, 2} |-> <<>>]
    /\ outcome = [c \in {1, 2} |-> Pending]
    /\ wire = <<>>
    /\ appAPIlock = 0

\* The methods wrapped by the Transport's decorator: the wrapper rejects a
\* call made while another wrapped method runs, and otherwise holds the
\* Transport's lock until the method's promise settles.
Decorated(name) == name \in decoratedMethods

\* The promise of caller c settles with r; the wrapper releases the lock.
Settle(c, r) ==
    /\ outcome' = [outcome EXCEPT ![c] = r]
    /\ pc' = [pc EXCEPT ![c] = IF r.kind = "value" THEN "done" ELSE "failed"]
    /\ appAPIlock' = IF appAPIlock = c THEN 0 ELSE appAPIlock

\* The wire with send number i settled as `status`.
Answered(i, status) == [wire EXCEPT ![i].status = status]

\* The wire with send number i resolved with the reply r.
Replied(i, r) == [wire EXCEPT ![i].status = "replied", ![i].reply = r]

\* `await this.transport.send(...)` of frame k of caller c, on wire w.
Send(c, w, frames, k) ==
    /\ wire' = Append(w, [by |-> c, apdu |-> frames[k], status |-> "pending",
                          reply |-> <<>>])
    /\ sentCount' = [sentCount EXCEPT ![c] = k]
    /\ pc' = [pc EXCEPT ![c] = "awaiting"]

\* `response = await this.transport.send(...)`: the reply replaces whatever
\* the local held before.
lastResponse_firstKept(previous, reply) ==
    IF previous # <<>> THEN previous ELSE reply
lastResponse(previous, reply) == reply

\* `for (let apdu of apdus)`: the frame that follows `sent` frames.
nextFrame_repeat(sent) == IF sent > 1 THEN sent ELSE sent + 1
nextFrame(sent) == sent + 1

\* Method o, invoked by the idle caller c, is to send `frames` one after the
\* other: it runs to its first await, or to its end when there is no frame.
Run(c, o, frames) ==
    /\ ~(Decorated(o.name) /\ appAPIlock # 0)
    /\ op' = [op EXCEPT ![c] = o]
    /\ apdus' = [apdus EXCEPT ![c] = frames]
    /\ IF frames = <<>>
       THEN /\ Settle(c, Finish(o, <<>>))
            /\ UNCHANGED <<wire, sentCount>>
       ELSE /\ Send(c, wire, frames, nextFrame(0))
            /\ appAPIlock' = IF Decorated(o.name) THEN c ELSE appAPIlock
            /\ UNCHANGED outcome
    /\ UNCHANGED response

\* sign(message, type): the guard, then the chunking loop, then the first send.
Sign(c, o, message, type) ==
    IF invalidSignInstruction(type)
    THEN /\ ~(Decorated(o.name) /\ appAPIlock # 0)
         /\ op' = [op EXCEPT ![c] = o]
         /\ Settle(c, Failure("invalid sign instruction called"))
         /\ UNCHANGED <<apdus, sentCount, response, wire>>
    ELSE Run(c, o, chunkLoop(message, type, 0, 0, <<>>))

getAddress(c, wide) ==
    /\ pc[c] = "idle"
    /\ \E d \in Derivations(wide), display \in BOOLEAN :
           Run(c, [name |-> "getAddress", account |-> d[1], index |-> d[2],
                   display |-> display],
               <<Apdu(CLA, GET_ADDRESS_INS, displayFlag(display), 0,
                      derivationData(d[1], d[2]))>>)

setAddress(c, wide) ==
    /\ pc[c] = "idle"
    /\ \E d \in Derivations(wide), display \in BOOLEAN :
           Run(c, [name |-> "setAddress", account |-> d[1], index |-> d[2],
                   display |-> display],
               <<Apdu(CLA, SET_ADDRESS_INS, displayFlag(display), 0,
                      derivationData(d[1], d[2]))>>)

signTransaction(c, wide) ==
    /\ pc[c] = "idle"
    /\ \E len \in PayloadLengths(wide), usingHash \in BOOLEAN :
           LET type == IF usingHash THEN SIGN_HASH_TX_INS ELSE SIGN_RAW_TX_INS
           IN  Sign(c, [name |-> "signTransaction", snapshot |-> "ts", type |-> type,
                        message |-> Message(len)],
                    Message(len), type)

signMessage(c, wide) ==
    /\ pc[c] = "idle"
    /\ \E len \in PayloadLengths(wide) :
           Sign(c, [name |-> "signMessage", snapshot |-> "ts",
                    type |-> SIGN_MESSAGE_INS, message |-> Message(len)],
                Message(len), SIGN_MESSAGE_INS)

\* sign called directly: it is a public method of the class, and not one of
\* the decorated ones.
sign(c, wide) ==
    /\ pc[c] = "idle"
    /\ \E len \in PayloadLengths(wide), type \in SignTypes(wide) :
           Sign(c, [name |-> "sign", snapshot |-> "ts", type |-> type,
                    message |-> Message(len)],
                Message(len), type)

getAddressAndSignAuthToken(c, wide) ==
    /\ pc[c] = "idle"
    /\ \E d \in Derivations(wide), len \in TokenLengths(wide) :
           LET message == authTokenPayload(d[1], d[2], Message(len))
           IN  Sign(c, [name |-> "getAddressAndSignAuthToken", snapshot |-> "ts",
                        type |-> GET_ADDRESS_AUTH_TOKEN_INS, account |-> d[1],
                        index |-> d[2], token |-> Message(len), message |-> message],
                    message, GET_ADDRESS_AUTH_TOKEN_INS)

getAppConfiguration(c) ==
    /\ pc[c] = "idle"
    /\ Run(c, [name |-> "getAppConfiguration", snapshot |-> "ts"],
           <<Apdu(CLA, GET_APP_CONFIGURATION_INS, 0, 0, <<>>)>>)

provideESDTInfo(c, wide) ==
    /\ pc[c] = "idle"
    /\ \E info \in TokenInfos(wide) :
           Run(c, [name |-> "provideESDTInfo", info |-> info],
               <<Apdu(CLA, PROVIDE_ESDT_INFO_INS, 0, 0,
                      serializeESDTInfo(info.ticker, info.id, info.decimals,
                                        info.chainId, info.signature))>>)

\* signTransaction of the oldest snapshot: the same loop with no guard,
\* instruction 0x04 and the curve mask 0x80 as p2.
signTransaction_v0(c, wide) ==
    /\ pc[c] = "idle"
    /\ \E len \in PayloadLengths(wide) :
           Run(c, [name |-> "signTransaction", snapshot |-> "part_000",
                   type |-> SIGN_RAW_TX_INS, message |-> Message(len)],
               chunkLoop(Message(len), SIGN_RAW_TX_INS, 128, 0, <<>>))

\* getAppConfiguration of Elrond.js.
getAppConfiguration_js(c) ==
    /\ pc[c] = "idle"
    /\ Run(c, [name |-> "getAppConfiguration", snapshot |-> "js"],
           <<Apdu(CLA, GET_APP_CONFIGURATION_INS, 0, 0, <<>>)>>)

\* The Transport resolves the pending send number i with a reply: the method
\* that awaits it resumes, and either sends its next frame or decodes the
\* reply and returns.
TransportReply(i, wide) ==
    /\ wire[i].status = "pending"
    /\ LET c == wire[i].by
       IN  \E r \in Replies(wire[i].apdu.ins, wide) :
               /\ response' = [response EXCEPT ![c] = lastResponse(response[c], r)]
               /\ IF sentCount[c] < Len(apdus[c])
                  THEN /\ Send(c, Replied(i, r), apdus[c], nextFrame(sentCount[c]))
                       /\ UNCHANGED <<outcome, appAPIlock>>
                  ELSE /\ Settle(c, Finish(op[c], lastResponse(response[c], r)))
                       /\ wire' = Replied(i, r)
                       /\ UNCHANGED sentCount
    /\ UNCHANGED <<op, apdus>>

\* A variant that catches the error and sends the same frame again.
TransportError_retry(i) ==
    /\ wire[i].status = "pending"
    /\ wire' = Append(Answered(i, "failed"), [wire[i] EXCEPT !.status = "pending"])
    /\ UNCHANGED <<pc, op, apdus, sentCount, response, outcome, appAPIlock>>

\* A variant that swallows the error and leaves the method suspended.
TransportError_hang(i) ==
    /\ wire[i].status = "pending"
    /\ wire' = Answered(i, "failed")
    /\ UNCHANGED <<pc, op, apdus, sentCount, response, outcome, appAPIlock>>

\* The Transport rejects the pending send number i: the await throws, no
\* handler catches it, and the method's promise is rejected with that error.
TransportError(i) ==
    /\ wire[i].status = "pending"
    /\ wire' = Answered(i, "failed")
    /\ Settle(wire[i].by, Failure("TransportFailure"))
    /\ UNCHANGED <<op, apdus, sentCount, response>>

\* A decorated method invoked while another decorated method runs: the
\* wrapper rejects the call and the method body does not run.
TransportLocked(c) ==
    /\ pc[c] = "idle"
    /\ appAPIlock # 0
    /\ \E name \in decoratedMethods :
        /\ op' = [op EXCEPT ![c] = [name |-> name]]
        /\ outcome' = [outcome EXCEPT ![c] = Failure("TransportLocked")]
        /\ pc' = [pc EXCEPT ![c] = "failed"]
    /\ UNCHANGED <<apdus, sentCount, response, wire, appAPIlock>>

Next ==
    \/ \E c \in DOMAIN pc : getAddress(c, TRUE)
    \/ \E c \in DOMAIN pc : setAddress(c, TRUE)
    \/ \E c \in DOMAIN pc : signTransaction(c, TRUE)
    \/ \E c \in DOMAIN pc : signMessage(c, TRUE)
    \/ \E c \in DOMAIN pc : sign(c, TRUE)
    \/ \E c \in DOMAIN pc : getAddressAndSignAuthToken(c, TRUE)
    \/ \E c \in DOMAIN pc : getAppConfiguration(c)
    \/ \E c \in DOMAIN pc : provideESDTInfo(c, TRUE)
    \/ \E c \in DOMAIN pc : signTransaction_v0(c, TRUE)
    \/ \E c \in DOMAIN pc : getAppConfiguration_js(c)
    \/ \E i \in DOMAIN wire : TransportReply(i, TRUE)
    \/ \E i \in DOMAIN wire : TransportError(i)

NextConc ==
    \/ \E c \in DOMAIN pc : getAddress(c, FALSE)
    \/ \E c \in DOMAIN pc : setAddress(c, FALSE)
    \/ \E c \in DOMAIN pc : signTransaction(c, FALSE)
    \/ \E c \in DOMAIN pc : signMessage(c, FALSE)
    \/ \E c \in DOMAIN pc : sign(c, FALSE)
    \/ \E c \in DOMAIN pc : getAddressAndSignAuthToken(c, FALSE)
    \/ \E c \in DOMAIN pc : getAppConfiguration(c)
    \/ \E c \in DOMAIN pc : provideESDTInfo(c, FALSE)
    \/ \E i \in DOMAIN wire : TransportReply(i, FALSE)
    \/ \E i \in DOMAIN wire : TransportError(i)
    \/ \E c \in DOMAIN pc : TransportLocked(c)

\* One caller, the full input sets.
Spec == Init /\ [][Next]_vars

\* Two concurrent callers, the reduced input sets.
SpecConc == InitConc /\ [][NextConc]_vars

\* The Transport answers a pending send, with a reply or with an error.
TransportAnswers ==
    \E i \in DOMAIN wire : TransportReply(i, TRUE) \/ TransportError(i)

\* One caller, with a Transport that eventually answers every send.
SpecLive == Init /\ [][Next]_vars /\ WF_vars(TransportAnswers)

----------------------------------------------------------------------------
(* Vocabulary of the properties. *)

\* The sends caller c has made, in call order.
SentBy(c) == SelectSeq(wire, LAMBDA e : e.by = c)

\* Caller c runs (or has run) the body of a signing method.
Signing(c) ==
    /\ pc[c] # "idle"
    /\ op[c].name \in {"sign", "signTransaction", "signMessage",
                       "getAddressAndSignAuthToken"}
    /\ "type" \in DOMAIN op[c]

\* The payloads of a frame sequence, concatenated in order.
RECURSIVE Concat(_)
Concat(frames) ==
    IF frames = <<>> THEN <<>> ELSE Head(frames).data \o Concat(Tail(frames))

\* Every send of caller c was answered with a reply and none is left to
\* make: response[c] is the reply to the last frame.
RepliedToAll(c) ==
    /\ pc[c] \in {"done", "failed"}
    /\ Len(SentBy(c)) = Len(apdus[c])
    /\ \A k \in 1..Len(SentBy(c)) : SentBy(c)[k].status = "replied"

\* The lower-case hex digits, as character codes.
HexChars == <<48, 49, 50, 51, 52, 53, 54, 55, 56, 57, 97, 98, 99, 100, 101, 102>>

\* str is the hex form of the `n` bytes of buf that start at position `from`.
IsHexOf(str, buf, from, n) ==
    /\ Len(str) = 2 * n
    /\ \A k \in 1..n :
        /\ str[2 * k - 1] = HexChars[(buf[from + k] \div 16) + 1]
        /\ str[2 * k] = HexChars[(buf[from + k] % 16) + 1]

----------------------------------------------------------------------------
(* Properties of the signing path. *)

\* C1: a signing payload of length L >= 1 handed to sign with one of the four
\* signing instructions is cut into exactly ceil(L/150) frames of at most 150
\* bytes each, whose payloads concatenated in order are the payload itself;
\* the first frame has p1 = 0x00 and every other frame has p1 = 0x80.
C1_FramesPartitionPayload ==
    \A c \in DOMAIN pc :
        (Signing(c) /\ op[c].type \in {4, 6, 7, 9} /\ Len(op[c].message) >= 1) =>
            LET L == Len(op[c].message)
                frames == apdus[c]
            IN  /\ Len(frames) = (L + 149) \div 150
                /\ \A k \in 1..Len(frames) : Len(frames[k].data) <= 150
                /\ Concat(frames) = op[c].message
                /\ frames[1].p1 = 0
                /\ \A k \in 2..Len(frames) : frames[k].p1 = 128

\* C1 witness: a 301-byte transaction was cut into three frames and signed.
C1_Witness ==
    \E c \in DOMAIN pc :
        /\ Signing(c) /\ pc[c] = "done"
        /\ Len(op[c].message) = 301
        /\ Len(apdus[c]) = 3
        /\ Len(apdus[c][3].data) = 1

\* C2: sign called with an instruction code outside {0x04, 0x06, 0x07, 0x09}
\* fails with the invalid-instruction error, has built no frame and has made
\* no Transport send, whatever the payload.
C2_InvalidInstructionSendsNothing ==
    \A c \in DOMAIN pc :
        (Signing(c) /\ op[c].type \notin {4, 6, 7, 9}) =>
            /\ pc[c] = "failed"
            /\ outcome[c] = Failure("invalid sign instruction called")
            /\ apdus[c] = <<>>
            /\ sentCount[c] = 0
            /\ SentBy(c) = <<>>

\* C2 witness: sign was called with instruction 0x08 and a 301-byte payload.
C2_Witness ==
    \E c \in DOMAIN pc :
        /\ Signing(c) /\ op[c].type = 8 /\ Len(op[c].message) = 301
        /\ pc[c] = "failed"

\* C3: the sends of a signing operation are its frames in frame order, none
\* skipped or repeated, and frame k+1 is sent only once frame k was replied
\* to: at most one send of the operation awaits its reply.
C3_FramesSentInOrderOneAtATime ==
    \A c \in DOMAIN pc :
        Signing(c) =>
            LET mine == SentBy(c)
            IN  /\ Len(mine) <= Len(apdus[c])
                /\ Len(mine) = sentCount[c]
                /\ \A k \in 1..Len(mine) : mine[k].apdu = apdus[c][k]
                /\ \A k \in 1..(Len(mine) - 1) : mine[k].status = "replied"
                /\ Cardinality({k \in 1..Len(mine) : mine[k].status = "pending"}) <= 1

\* C3 witness: the third frame of a signing operation awaits its reply.
C3_Witness ==
    \E c \in DOMAIN pc :
        /\ Signing(c) /\ pc[c] = "awaiting"
        /\ Len(apdus[c]) >= 3
        /\ Len(SentBy(c)) = 3
        /\ SentBy(c)[3].status = "pending"

\* C4: when the Transport reports an error on frame k of a signing operation,
\* the operation has failed with that error, frame k is the last frame it
\* sent and was sent once, and no value is returned.
C4_TransportErrorIsTerminal ==
    \A c \in DOMAIN pc :
        Signing(c) =>
            LET mine == SentBy(c)
            IN  \A k \in 1..Len(mine) :
                    mine[k].status = "failed" =>
                        /\ k = Len(mine)
                        /\ mine[k].apdu = apdus[c][k]
                        /\ pc[c] = "failed"
                        /\ outcome[c] = Failure("TransportFailure")

\* C4 witness: the Transport failed the second of at least three frames.
C4_Witness ==
    \E c \in DOMAIN pc :
        /\ Signing(c)
        /\ Len(apdus[c]) >= 3
        /\ Len(SentBy(c)) = 2
        /\ SentBy(c)[2].status = "failed"

\* C5: raw-transaction, transaction-hash and message signing succeed exactly
\* when the reply to the last frame is 67 bytes long with byte 0 equal to 64;
\* the result is then the 128 hex characters of reply bytes 1..64, and
\* otherwise the operation fails with the invalid-signature error.
C5_SignatureDecode ==
    \A c \in DOMAIN pc :
        (Signing(c) /\ op[c].type \in {4, 6, 7} /\ RepliedToAll(c)
            /\ Len(apdus[c]) >= 1) =>
            LET r == response[c]
                wellFormed == Len(r) = 67 /\ r[1] = 64
            IN  /\ (outcome[c].kind = "value") <=> wellFormed
                /\ wellFormed =>
                    /\ Len(outcome[c].value) = 128
                    /\ IsHexOf(outcome[c].value, r, 1, 64)
                /\ ~wellFormed =>
                    outcome[c] = Failure("invalid signature received from ledger device")

\* C5 witness: a message of several frames was signed: the reply to its
\* last frame was decoded into 128 hex characters.
C5_Witness ==
    \E c \in DOMAIN pc :
        /\ Signing(c) /\ op[c].type = 6 /\ RepliedToAll(c)
        /\ Len(apdus[c]) >= 2
        /\ pc[c] = "done"
        /\ Len(outcome[c].value) = 128

----------------------------------------------------------------------------
(* Properties of the auth-token decoding. *)

\* Caller c ran getAddressAndSignAuthToken and got a reply to its last frame.
AuthTokenReplied(c) ==
    /\ Signing(c)
    /\ op[c].name = "getAddressAndSignAuthToken"
    /\ RepliedToAll(c)

\* C6: the final reply of getAddressAndSignAuthToken is rejected whenever its
\* length is not 129 or its byte 0 is not 126; a result is returned only for
\* a reply of 129 bytes whose byte 0 is 126.
C6_AuthTokenReplyRejectedOnEitherFault ==
    \A c \in DOMAIN pc :
        AuthTokenReplied(c) =>
            LET r == response[c]
                wellFormed == Len(r) = 129 /\ r[1] = 126
            IN  /\ ~wellFormed => outcome[c].kind = "error"
                /\ outcome[c].kind = "value" => wellFormed

\* C6: a reply with only one of the two faults was accepted.
C6_Witness ==
    \E c \in DOMAIN pc :
        /\ AuthTokenReplied(c)
        /\ Len(response[c]) = 129 /\ response[c][1] # 126
        /\ pc[c] = "done"

\* C7: for every reply of 129 bytes whose byte 0 is 126, whatever the 62
\* address bytes are, getAddressAndSignAuthToken returns the ASCII form of
\* reply bytes 1..62 as address and the hex form of the 64 bytes after them
\* as signature.
C7_AuthTokenFieldsAtFixedOffsets ==
    \A c \in DOMAIN pc :
        (AuthTokenReplied(c) /\ Len(response[c]) = 129 /\ response[c][1] = 126) =>
            LET r == response[c]
            IN  /\ outcome[c].kind = "value"
                /\ outcome[c].value.address = [k \in 1..62 |-> r[k + 1] % 128]
                /\ IsHexOf(outcome[c].value.signature, r, 63, 64)

\* C7: a well-formed reply whose address field holds a "|" was decoded.
C7_Witness ==
    \E c \in DOMAIN pc :
        /\ AuthTokenReplied(c) /\ pc[c] = "done"
        /\ Len(response[c]) = 129 /\ response[c][1] = 126
        /\ \E k \in 2..63 : response[c][k] = PIPE

----------------------------------------------------------------------------
(* Properties of concurrent callers. *)

\* The public operations of the adapter.
PublicOperations ==
    {"getAddress", "setAddress", "signTransaction", "signMessage",
     "getAddressAndSignAuthToken", "getAppConfiguration", "provideESDTInfo"}

----------------------------------------------------------------------------
(* Properties of getAppConfiguration. *)

\* Caller c ran getAppConfiguration of snapshot `snapshot` and got its reply.
ConfigurationReplied(c, snapshot) ==
    /\ pc[c] = "done"
    /\ op[c].name = "getAppConfiguration"
    /\ op[c].snapshot = snapshot
    /\ RepliedToAll(c)

\* C9, as stated: on a reply of length 6 getAppConfiguration returns
\* accountIndex = byte 1, addressIndex = byte 2 and contractData = byte 0.
C9_LegacyIndicesFromBytes ==
    \A c \in DOMAIN pc :
        \A snapshot \in {"ts", "js"} :
            (ConfigurationReplied(c, snapshot) /\ Len(response[c]) = 6) =>
                /\ outcome[c].value.contractData = response[c][1]
                /\ outcome[c].value.accountIndex = response[c][2]
                /\ outcome[c].value.addressIndex = response[c][3]

\* C9, amended: on a reply of length 6 contractData is byte 0; Elrond.ts
\* returns accountIndex = 0 and addressIndex = 0 (bytes 1 and 2 are unused),
\* and only the older Elrond.js returns byte 1 and byte 2.
C9_LegacyIndicesBySnapshot ==
    \A c \in DOMAIN pc :
        /\ (ConfigurationReplied(c, "ts") /\ Len(response[c]) = 6) =>
                /\ outcome[c].value.contractData = response[c][1]
                /\ outcome[c].value.accountIndex = 0
                /\ outcome[c].value.addressIndex = 0
        /\ (ConfigurationReplied(c, "js") /\ Len(response[c]) = 6) =>
                /\ outcome[c].value.contractData = response[c][1]
                /\ outcome[c].value.accountIndex = response[c][2]
                /\ outcome[c].value.addressIndex = response[c][3]

\* C9 witness: Elrond.ts decoded a 6-byte reply whose bytes 1 and 2 are not 0.
C9_Witness ==
    \E c \in DOMAIN pc :
        /\ ConfigurationReplied(c, "ts")
        /\ Len(response[c]) = 6
        /\ response[c][2] # 0 /\ response[c][3] # 0
        /\ outcome[c].value.accountIndex = 0

\* v is the unsigned 32-bit big-endian value of the bytes of buf at positions
\* pos..pos+3 (stated without forming a number above 2^31 - 1).
IsUnsigned32Of(v, buf, pos) ==
    /\ v >= 0
    /\ v \div 16777216 = buf[pos + 1]
    /\ v % 16777216 = buf[pos + 2] * 65536 + buf[pos + 3] * 256 + buf[pos + 4]

\* C10: on a reply of length 14 getAppConfiguration returns as accountIndex
\* the unsigned 32-bit big-endian value of bytes 6..9 and as addressIndex that
\* of bytes 10..13: both are in 0..2^32-1, never negative.
C10_ExtendedIndicesUnsigned ==
    \A c \in DOMAIN pc :
        (ConfigurationReplied(c, "ts") /\ Len(response[c]) = 14) =>
            /\ IsUnsigned32Of(outcome[c].value.accountIndex, response[c], 6)
            /\ IsUnsigned32Of(outcome[c].value.addressIndex, response[c], 10)

\* C10: a 14-byte reply whose account index has its top bit set was decoded.
C10_Witness ==
    \E c \in DOMAIN pc :
        /\ ConfigurationReplied(c, "ts") /\ Len(response[c]) = 14
        /\ response[c][7] >= 128
        /\ outcome[c].value.accountIndex < 0

----------------------------------------------------------------------------
(* Properties of the boundary cases of the signing path. *)

\* C11: a signing operation invoked with one of the four signing instructions
\* and a payload of length 0 builds no frame, makes no Transport send and
\* ends in a failure: it never returns a signature.
C11_EmptyPayloadFailsWithoutSend ==
    \A c \in DOMAIN pc :
        (Signing(c) /\ op[c].type \in {4, 6, 7, 9} /\ Len(op[c].message) = 0) =>
            /\ apdus[c] = <<>>
            /\ SentBy(c) = <<>>
            /\ sentCount[c] = 0
            /\ pc[c] = "failed"
            /\ outcome[c].kind = "error"

\* C11 witness: signMessage was invoked with an empty message and failed
\* with the invalid-signature error, nothing having been sent.
C11_Witness ==
    \E c \in DOMAIN pc :
        /\ Signing(c) /\ op[c].name = "signMessage"
        /\ op[c].message = <<>>
        /\ wire = <<>>
        /\ outcome[c] = Failure("invalid signature received from ledger device")

----------------------------------------------------------------------------
(* Properties of the unchunked operations. *)

\* The serialized record of the provideESDTInfo call of caller c.
TokenRecord(c) ==
    serializeESDTInfo(op[c].info.ticker, op[c].info.id, op[c].info.decimals,
                      op[c].info.chainId, op[c].info.signature)

\* C12: provideESDTInfo never splits its payload: a serialized record longer
\* than 150 bytes makes the operation fail with PayloadTooLarge without any
\* Transport send; otherwise exactly one command with class 0xED, instruction
\* 0x08, p1 0x00 and p2 0x00 carries the whole record.
C12_TokenInfoNeverSplit ==
    \A c \in DOMAIN pc :
        (pc[c] # "idle" /\ op[c].name = "provideESDTInfo") =>
            IF Len(TokenRecord(c)) > 150
            THEN /\ SentBy(c) = <<>>
                 /\ outcome[c] = Failure("PayloadTooLarge")
            ELSE /\ Len(SentBy(c)) = 1
                 /\ SentBy(c)[1].apdu =
                        [cla |-> 237, ins |-> 8, p1 |-> 0, p2 |-> 0,
                         data |-> TokenRecord(c)]

\* C12: a record of more than 150 bytes was sent, whole, in one command.
C12_Witness ==
    \E c \in DOMAIN pc :
        /\ pc[c] # "idle" /\ op[c].name = "provideESDTInfo"
        /\ Len(TokenRecord(c)) > 150
        /\ Len(SentBy(c)) = 1
        /\ SentBy(c)[1].apdu.data = TokenRecord(c)

\* v is the signed 32-bit big-endian (two's complement) value of the bytes
\* of buf at positions pos..pos+3.
IsSigned32Of(v, buf, pos) ==
    IF v >= 0
    THEN buf[pos + 1] < 128 /\ IsUnsigned32Of(v, buf, pos)
    ELSE /\ buf[pos + 1] >= 128
         /\ v = (buf[pos + 1] - 256) * 16777216 + buf[pos + 2] * 65536
                    + buf[pos + 3] * 256 + buf[pos + 4]

\* C13: each invocation of getAddress (resp. setAddress) makes exactly one
\* Transport send, with class 0xED, instruction 0x03 (resp. 0x05), p2 = 0x00
\* and an 8-byte payload holding the account as a big-endian signed and the
\* index as a big-endian unsigned 32-bit integer; p1 is 0x01 if and only if
\* display is requested, and 0x00 otherwise.
C13_DerivationCommandShape ==
    \A c \in DOMAIN pc :
        (pc[c] # "idle" /\ op[c].name \in {"getAddress", "setAddress"}) =>
            /\ Len(SentBy(c)) = 1
            /\ LET apdu == SentBy(c)[1].apdu
               IN  /\ apdu.cla = 237
                   /\ apdu.ins = (IF op[c].name = "getAddress" THEN 3 ELSE 5)
                   /\ apdu.p2 = 0
                   /\ Len(apdu.data) = 8
                   /\ \A k \in 1..8 : apdu.data[k] \in 0..255
                   /\ IsSigned32Of(op[c].account, apdu.data, 0)
                   /\ IsUnsigned32Of(op[c].index, apdu.data, 4)
                   /\ apdu.p1 \in {0, 1}
                   /\ (apdu.p1 = 1) <=> op[c].display

\* C13 witness: getAddress was invoked for the negative account -1 without
\* display, its one command went out with p1 = 0x00 and was answered.
C13_Witness ==
    \E c \in DOMAIN pc :
        /\ pc[c] = "done" /\ op[c].name = "getAddress"
        /\ op[c].account < 0 /\ ~op[c].display
        /\ Len(SentBy(c)) = 1
        /\ SentBy(c)[1].apdu.p1 = 0
        /\ SubSeq(SentBy(c)[1].apdu.data, 1, 4) = <<255, 255, 255, 255>>

----------------------------------------------------------------------------
(* Properties of whole runs of a signing operation. *)

\* The replies the Transport gave to the sends of caller c, in send order.
RepliesTo(c) == [k \in 1..Len(SentBy(c)) |-> SentBy(c)[k].reply]

\* Callers c and d ran the same signing operation on the same payload, each
\* got a reply to every frame, and the replies to their last frames agree.
SameRunUpToLastReply(c, d) ==
    /\ Signing(c) /\ Signing(d)
    /\ op[c] = op[d]
    /\ RepliedToAll(c) /\ RepliedToAll(d)
    /\ Len(apdus[c]) >= 1
    /\ RepliesTo(c)[Len(apdus[c])] = RepliesTo(d)[Len(apdus[d])]

\* C14: the outcome of a signing operation is a function of the requested
\* operation and of the reply to its last frame only: two runs of the same
\* operation on the same payload with the same last reply have the same
\* outcome, however the replies to their intermediate frames differ.
C14_OutcomeDependsOnLastReplyOnly ==
    \A c, d \in DOMAIN pc :
        SameRunUpToLastReply(c, d) => outcome[c] = outcome[d]

\* C14 witness: two runs of one two-frame operation got different replies to
\* the first frame and the same reply to the second.
C14_Witness ==
    \E c, d \in DOMAIN pc :
        /\ c # d
        /\ SameRunUpToLastReply(c, d)
        /\ Len(apdus[c]) = 2
        /\ RepliesTo(c)[1] # RepliesTo(d)[1]
        /\ outcome[c].kind = "value"

\* Caller c has reached Completed or Failed.
Terminated(c) == pc[c] \in {"done", "failed"}

\* The chunking loop ended with its offset at the payload length, and no
\* more sends were made than frames were built.
SendsBoundedByFrames ==
    \A c \in DOMAIN pc :
        Signing(c) =>
            /\ Len(SentBy(c)) <= Len(apdus[c])
            /\ Len(apdus[c]) <= (Len(op[c].message) + 149) \div 150
            /\ (apdus[c] # <<>>) => Len(Concat(apdus[c])) = Len(op[c].message)

\* Completed and Failed are terminal: the outcome stays and nothing is sent.
TerminalStep ==
    \A c \in DOMAIN pc :
        (Signing(c) /\ Terminated(c)) =>
            /\ pc'[c] = pc[c]
            /\ outcome'[c] = outcome[c]
            /\ wire' = wire

\* C15: provided the Transport eventually answers each send, every invocation
\* of a signing operation eventually reaches Completed or Failed; the
\* chunking loop ends for every payload length with its offset exactly at
\* that length, the sends are at most as many as the frames, and Completed
\* and Failed are terminal, with no send after either.
C15_SigningTerminates ==
    /\ \A c \in {1} : Signing(c) ~> Terminated(c)
    /\ []SendsBoundedByFrames
    /\ [][TerminalStep]_vars

\* C15 witness: a signing operation of three frames reached Completed after
\* the Transport answered each of its sends.
C15_Witness ==
    \E c \in DOMAIN pc :
        /\ Signing(c) /\ pc[c] = "done"
        /\ Len(apdus[c]) = 3
        /\ Len(SentBy(c)) = 3
        /\ \A k \in 1..3 : SentBy(c)[k].status = "replied"

\* C16: in every frame sequence built by a signing operation no frame has an
\* empty payload and every frame but the last has a payload of exactly 150
\* bytes; a payload whose length is a multiple of 150 gets no trailing empty
\* frame.
C16_OnlyLastFrameShort ==
    \A c \in DOMAIN pc :
        Signing(c) =>
            LET frames == apdus[c]
                L == Len(op[c].message)
            IN  /\ \A k \in 1..Len(frames) : Len(frames[k].data) >= 1
                /\ \A k \in 1..(Len(frames) - 1) : Len(frames[k].data) = 150
                /\ (frames # <<>> /\ L % 150 = 0) =>
                        /\ Len(frames) = L \div 150
                        /\ Len(frames[Len(frames)].data) = 150

\* C16 witness: a payload of 300 bytes was cut into two frames of 150 bytes.
C16_Witness ==
    \E c \in DOMAIN pc :
        /\ Signing(c)
        /\ Len(op[c].message) = 300
        /\ Len(apdus[c]) = 2
        /\ Len(apdus[c][1].data) = 150 /\ Len(apdus[c][2].data) = 150

----------------------------------------------------------------------------
(* Properties of the auth-token request. *)

\* C17: for getAddressAndSignAuthToken with any token, the empty one included,
\* the frames built use instruction 0x09 and their payloads concatenated are
\* the 12-byte header (account, index, token length, each 32-bit big-endian)
\* followed by the token bytes; the third field of the header is the token's
\* length, and at least one frame is sent.
C17_AuthTokenRequestLayout ==
    \A c \in DOMAIN pc :
        (pc[c] # "idle" /\ op[c].name = "getAddressAndSignAuthToken") =>
            LET frames == apdus[c]
                payload == Concat(frames)
                token == op[c].token
            IN  /\ Len(frames) >= 1
                /\ Len(SentBy(c)) >= 1
                /\ \A k \in 1..Len(SentBy(c)) : SentBy(c)[k].apdu = frames[k]
                /\ \A k \in 1..Len(frames) : frames[k].cla = 237 /\ frames[k].ins = 9
                /\ Len(payload) = 12 + Len(token)
                /\ IsSigned32Of(op[c].account, payload, 0)
                /\ IsUnsigned32Of(op[c].index, payload, 4)
                /\ IsUnsigned32Of(Len(token), payload, 8)
                /\ SubSeq(payload, 13, Len(payload)) = token

\* C17 witness: the call with an empty token sent one frame of 12 bytes, the
\* header alone, and was answered.
C17_Witness ==
    \E c \in DOMAIN pc :
        /\ op[c].name = "getAddressAndSignAuthToken"
        /\ Terminated(c) /\ RepliedToAll(c)
        /\ op[c].token = <<>>
        /\ Len(SentBy(c)) = 1
        /\ Len(SentBy(c)[1].apdu.data) = 12

----------------------------------------------------------------------------
(* Properties of the replies of unexpected length. *)

\* "a.b.c" for three numbers.
DottedTriple(a, b, c) == Decimal(a) \o <<46>> \o Decimal(b) \o <<46>> \o Decimal(c)

\* The text "undefined".
UndefinedText == <<117, 110, 100, 101, 102, 105, 110, 101, 100>>

\* The decimal form of byte i of buf, or "undefined" when buf has no byte i.
ByteText(buf, i) == IF i < Len(buf) THEN Decimal(buf[i + 1]) ELSE UndefinedText

AddressReplied(c) ==
    /\ op[c].name = "getAddress"
    /\ Terminated(c) /\ RepliedToAll(c)

\* The reply holds its length byte n and the n bytes it announces.
HoldsAnnouncedAddress(r) == Len(r) >= 1 /\ Len(r) >= r[1] + 1

\* C19: getAddress decodes its reply as a length-prefixed field: with n =
\* reply byte 0, the address is the ASCII form of the n bytes at reply
\* positions 1..n when the reply holds at least n+1 bytes, and a reply shorter
\* than n+1 bytes ends in a failure, not in a truncated address.
C19_AddressLengthPrefixed ==
    \A c \in DOMAIN pc :
        AddressReplied(c) =>
            LET r == response[c]
            IN  IF HoldsAnnouncedAddress(r)
                THEN /\ outcome[c].kind = "value"
                     /\ outcome[c].value.address = [k \in 1..r[1] |-> r[k + 1] % 128]
                ELSE outcome[c].kind = "error"

\* C19: a reply announcing 62 address bytes and holding 5 bytes after the
\* length byte was decoded into an address of 5 characters.
C19_Witness ==
    \E c \in DOMAIN pc :
        /\ AddressReplied(c) /\ pc[c] = "done"
        /\ Len(response[c]) = 6 /\ response[c][1] = 62
        /\ Len(outcome[c].value.address) = 5

====
